---- MODULE Spec2Model ----
(***************************************************************************)
(* QGVLayerTilesOnline: online tile layer with an SQLite tile cache.       *)
(*                                                                         *)
(* The GUI thread owns mRequest (the QHash of the in-flight replies),    *)
(* runs request / cancel and the finished() handlers, and calls onTile.    *)
(* Every successful completion starts one QtConcurrent task that runs      *)
(* cacheTile under mDbMutex.  The table Tiles lives in the database file.  *)
(***************************************************************************)
EXTENDS Integers, Sequences, FiniteSets, TLC

\* Number of QNetworkReply objects the network manager hands out in a run.
MaxReplies == 2

\* QGV::GeoTilePos values the renderer asks for.
TilePos == {1, 2}

\* The replies, numbered in the order QNetworkAccessManager::get creates them.
Replies == 1..MaxReplies

\* mRequest.value(tilePos, nullptr): the default of an absent key.
nullptr == 0

\* QByteArray values: a response body or a cached blob; <<>> is the empty array.
Bodies == {<<>>, <<1>>, <<2>>}

\* What readAll() would return on a reply that failed: the server's error page.
ErrorBodies == {<<3>>}

\* What the table Tiles of <name>.db holds when the layer is constructed:
\* nothing, or tile images earlier runs cached, one row per primary key.
TilesTables ==
    {rows \in SUBSET [pos : TilePos, data : Bodies \ {<<>>}] :
        \A a, b \in rows : a.pos = b.pos => a = b}

VARIABLES
    mRequest,   \* QHash<GeoTilePos, QNetworkReply*>, as a set of <<tilePos, reply>>
    nReplies,   \* replies created so far
    rPos,       \* reply -> the tilePos its finished-lambda captured
    rState,     \* reply -> "unused" | "running" | "finished" | "aborted" | "destroyed"
    rError,     \* reply -> reply->error()
    rBody,      \* reply -> what reply->readAll() returns
    deleted,    \* replies that were close()d and deleteLater()ed
    tiles,      \* reply -> the tiles onTile received for that reply, in order
    task,       \* reply -> position of the cacheTile task its completion started
    mDbOpen,    \* mDb.isOpen()
    mDbMutex,   \* the task holding mDbMutex, or 0
    Tiles,      \* rows of the database table Tiles
    diskOk,     \* whether the database file can be opened and queried
    cancelled,  \* history: replies cancel() found in mRequest, still running
    events,     \* history: reply -> the calls its onReplyFinished made, in order
    life        \* "alive" | "destroyed" (the destructor ran) | "crashed"

vars == <<mRequest, nReplies, rPos, rState, rError, rBody, deleted, tiles,
          task, mDbOpen, mDbMutex, Tiles, diskOk, cancelled, events, life>>

----------------------------------------------------------------------------
\* The GUI thread's view of the object, threaded through the handlers.
Main ==
    [mRequest |-> mRequest, rPos |-> rPos, rState |-> rState, rError |-> rError,
     rBody |-> rBody, deleted |-> deleted, tiles |-> tiles, task |-> task,
     mDbOpen |-> mDbOpen, Tiles |-> Tiles, diskOk |-> diskOk, events |-> events]

Commit(st) ==
    /\ mRequest' = st.mRequest
    /\ rState' = st.rState
    /\ rError' = st.rError
    /\ rBody' = st.rBody
    /\ deleted' = st.deleted
    /\ tiles' = st.tiles
    /\ task' = st.task
    /\ mDbOpen' = st.mDbOpen
    /\ events' = st.events

\* A call made by the onReplyFinished of reply, added to its history.
note(st, reply, call) == [st EXCEPT !.events[reply] = Append(@, call)]

\* mRequest.value(tilePos, nullptr)
value(m, tilePos) ==
    IF \E e \in m : e[1] = tilePos
    THEN (CHOOSE e \in m : e[1] = tilePos)[2]
    ELSE nullptr

\* mRequest[tilePos] = reply: QHash::operator[] replaces the value of the key.
insert(m, tilePos, reply) ==
    {e \in m : e[1] # tilePos} \cup {<<tilePos, reply>>}

\* Variant: the entry stays in the hash.
removeNothing(m, tilePos) == m

\* Variant: mRequest.clear() instead of remove(tilePos).
removeClear(m, tilePos) == {}

\* mRequest.remove(tilePos)
remove(m, tilePos) == {e \in m : e[1] # tilePos}

\* tile->loadImage(const QByteArray&)
loadImageData(rawData) == [image |-> "data", data |-> rawData]

\* tile->loadImage(mNoDataImage): the red NO DATA picture of the constructor.
loadImageNoData == [image |-> "mNoDataImage", data |-> <<>>]

\* onTile(tilePos, tile), filed under the reply whose handler made the call.
onTile(st, tilePos, tile, reply) ==
    note([st EXCEPT !.tiles[reply] = Append(@, [pos |-> tilePos, tile |-> tile])],
         reply, "onTile")

\* initDatabase: mDb.open() and CREATE TABLE IF NOT EXISTS.
initDatabase(open, disk) == disk

\* SELECT data FROM Tiles WHERE (zoom, pos_x, pos_y) = tilePos; exec() && next()
selectData(open, disk, rows, tilePos) ==
    IF open /\ disk /\ \E r \in rows : r.pos = tilePos
    THEN (CHOOSE r \in rows : r.pos = tilePos).data
    ELSE <<>>

\* Variant: INSERT OR REPLACE, the new blob overwrites the row.
insertOrReplace(rows, tilePos, rawData) ==
    {r \in rows : r.pos # tilePos} \cup {[pos |-> tilePos, data |-> rawData]}

\* INSERT OR IGNORE INTO Tiles: a row with the same primary key is kept.
insertOrIgnore(rows, tilePos, rawData) ==
    IF \E r \in rows : r.pos = tilePos
    THEN rows
    ELSE rows \cup {[pos |-> tilePos, data |-> rawData]}

\* loadTileFromCache, first half: open the database lazily.
loadTileFromCacheOpen(st) ==
    IF ~st.mDbOpen
    THEN [st EXCEPT !.mDbOpen = initDatabase(st.mDbOpen, st.diskOk)]
    ELSE st

\* loadTileFromCache, second half: the bytes it returns.
loadTileFromCache(st, tilePos) ==
    selectData(st.mDbOpen, st.diskOk, st.Tiles, tilePos)

RECURSIVE removeReply(_, _)
RECURSIVE abort(_, _)
RECURSIVE onReplyFinished(_, _, _)

\* Variant: a cached row, when there is one, is shown instead of the fresh body.
onReplySuccessPrefersCache(st, reply, tilePos, rawImage) ==
    LET cached == loadTileFromCache(loadTileFromCacheOpen(st), tilePos)
        shown == IF cached = <<>> THEN rawImage ELSE cached
        s1 == onTile(st, tilePos, loadImageData(shown), reply)
    IN  [s1 EXCEPT !.task[reply] = "queued"]

\* Variant: the cache write is dispatched first, the tile delivered after it.
onReplySuccessRunsFirst(st, reply, tilePos, rawImage) ==
    LET s1 == note([st EXCEPT !.task[reply] = "queued"], reply, "QtConcurrent::run")
    IN  onTile(s1, tilePos, loadImageData(rawImage), reply)

\* The success branch of onReplyFinished, after removeReply.
onReplySuccess(st, reply, tilePos, rawImage) ==
    LET s1 == onTile(st, tilePos, loadImageData(rawImage), reply)
    IN  note([s1 EXCEPT !.task[reply] = "queued"], reply, "QtConcurrent::run")

\* Variant: the error branch without its return statements falls through to
\* the success branch.
onReplyErrorNoReturn(st, reply, tilePos) ==
    LET s1 == loadTileFromCacheOpen(st)
        rawData == loadTileFromCache(s1, tilePos)
        s2 == IF rawData = <<>>
              THEN onTile(s1, tilePos, loadImageNoData, reply)
              ELSE onTile(s1, tilePos, loadImageData(rawData), reply)
    IN  onReplySuccess(s2, reply, tilePos, st.rBody[reply])

\* Variant: an error only removes the reply, nothing is delivered on a miss.
onReplyErrorSilentMiss(st, reply, tilePos) ==
    LET s1 == loadTileFromCacheOpen(st)
        rawData == loadTileFromCache(s1, tilePos)
    IN  IF rawData = <<>>
        THEN s1
        ELSE onTile(s1, tilePos, loadImageData(rawData), reply)

\* Variant: the error branch shows what the failed reply carried.
onReplyErrorUsesBody(st, reply, tilePos) ==
    LET s1 == loadTileFromCacheOpen(st)
        rawData == st.rBody[reply]
    IN  IF rawData = <<>>
        THEN onTile(s1, tilePos, loadImageNoData, reply)
        ELSE onTile(s1, tilePos, loadImageData(rawData), reply)

\* The error branch of onReplyFinished, after removeReply: cache, else NO DATA.
onReplyError(st, reply, tilePos) ==
    LET s1 == loadTileFromCacheOpen(note(st, reply, "loadTileFromCache"))
        rawData == loadTileFromCache(s1, tilePos)
    IN  IF rawData = <<>>
        THEN onTile(s1, tilePos, loadImageNoData, reply)
        ELSE onTile(s1, tilePos, loadImageData(rawData), reply)

\* Variant: the reply is removed from mRequest at the end of the handler.
onReplyFinishedRemovesLast(st, reply, tilePos) ==
    IF st.rError[reply] # "NoError"
    THEN removeReply(note(onReplyError(st, reply, tilePos), reply, "removeReply"),
                     tilePos)
    ELSE LET rawImage == st.rBody[reply]
             s1 == note(note(st, reply, "readAll"), reply, "loadImage")
             s2 == onReplySuccess(s1, reply, tilePos, rawImage)
         IN  removeReply(note(s2, reply, "removeReply"), tilePos)

onReplyFinished(st, reply, tilePos) ==
    IF st.rError[reply] # "NoError"
    THEN onReplyError(removeReply(note(st, reply, "removeReply"), tilePos),
                      reply, tilePos)
    ELSE LET rawImage == st.rBody[reply]
             s1 == note(note(st, reply, "readAll"), reply, "loadImage")
         IN  onReplySuccess(removeReply(note(s1, reply, "removeReply"), tilePos),
                            reply, tilePos, rawImage)

\* QNetworkReply::abort(): nothing on a finished or aborted reply; a running one
\* gets OperationCanceledError and emits finished() before abort() returns.
abort(st, reply) ==
    IF st.rState[reply] # "running"
    THEN st
    ELSE onReplyFinished(
             [st EXCEPT !.rState[reply] = "aborted",
                        !.rError[reply] = "OperationCanceledError"],
             reply, st.rPos[reply])

removeReply(st, tilePos) ==
    LET reply == value(st.mRequest, tilePos)
    IN  IF reply = nullptr
        THEN st
        ELSE LET s1 == [st EXCEPT !.mRequest = remove(@, tilePos)]
                 s2 == abort(s1, reply)
             IN  [s2 EXCEPT !.deleted = @ \cup {reply}]

----------------------------------------------------------------------------
Init ==
    /\ mRequest = {}
    /\ nReplies = 0
    /\ rPos = [r \in Replies |-> 0]
    /\ rState = [r \in Replies |-> "unused"]
    /\ rError = [r \in Replies |-> "NoError"]
    /\ rBody = [r \in Replies |-> <<>>]
    /\ deleted = {}
    /\ tiles = [r \in Replies |-> <<>>]
    /\ task = [r \in Replies |-> "none"]
    /\ mDbOpen = FALSE
    /\ mDbMutex = 0
    /\ Tiles \in TilesTables
    /\ diskOk = TRUE
    /\ cancelled = {}
    /\ events = [r \in Replies |-> <<>>]
    /\ life = "alive"

\* onReplyFinished of some reply called loadTileFromCache on the way to st.
ranLoadTileFromCache(st) ==
    \E r \in Replies :
        \E i \in (Len(events[r]) + 1)..Len(st.events[r]) :
            st.events[r][i] = "loadTileFromCache"

\* Undefined behaviour that ends the process instead of going on as if the
\* object and its database handle were intact.
crash ==
    /\ life' = "crashed"
    /\ UNCHANGED <<mRequest, nReplies, rPos, rState, rError, rBody, deleted,
                   tiles, task, mDbOpen, mDbMutex, Tiles, diskOk, cancelled,
                   events>>

\* request(tilePos): get() a new reply, store it under tilePos, connect finished.
request(tilePos) ==
    /\ life = "alive"
    /\ nReplies < MaxReplies
    /\ LET reply == nReplies + 1
       IN  /\ nReplies' = reply
           /\ mRequest' = insert(mRequest, tilePos, reply)
           /\ rPos' = [rPos EXCEPT ![reply] = tilePos]
           /\ rState' = [rState EXCEPT ![reply] = "running"]
    /\ UNCHANGED <<rError, rBody, deleted, tiles, task, mDbOpen, mDbMutex,
                   Tiles, diskOk, cancelled, events, life>>

\* cancel(tilePos).  The abort it causes runs onReplyFinished, whose
\* loadTileFromCache uses mDb without mDbMutex: with a cacheTile inside its
\* critical section that is a data race.
cancel(tilePos) ==
    /\ life = "alive"
    /\ LET st == removeReply(Main, tilePos)
       IN  \/ /\ Commit(st)
              /\ cancelled' = cancelled \cup
                     {r \in Replies :
                         r = value(mRequest, tilePos) /\ rState[r] = "running"}
              /\ UNCHANGED <<nReplies, rPos, mDbMutex, Tiles, diskOk, life>>
           \/ /\ mDbMutex # 0
              /\ ranLoadTileFromCache(st)
              /\ crash

\* The network finishes a running reply, with or without an error, and the
\* reply emits finished(): the connected lambda runs onReplyFinished on the
\* captured this, also when the layer is destroyed already.
finished(reply, error, body) ==
    /\ rState[reply] = "running"
    /\ life # "crashed"
    /\ LET st == onReplyFinished(
                     [Main EXCEPT !.rState[reply] = "finished",
                                  !.rError[reply] = error,
                                  !.rBody[reply] = body],
                     reply, rPos[reply])
       IN  \/ /\ Commit(st)
              /\ UNCHANGED <<nReplies, rPos, mDbMutex, Tiles, diskOk,
                             cancelled, life>>
           \/ /\ \/ life = "destroyed"
                 \/ mDbMutex # 0 /\ ranLoadTileFromCache(st)
              /\ crash

\* Variant: cacheTile without the QMutexLocker.
cacheTileNoLocker(reply) ==
    /\ task[reply] = "queued"
    /\ life # "crashed"
    /\ mDbMutex' = reply
    /\ task' = [task EXCEPT ![reply] = "locked"]
    /\ UNCHANGED <<mRequest, nReplies, rPos, rState, rError, rBody,
                   deleted, tiles, mDbOpen, Tiles, diskOk, cancelled,
                   events, life>>

\* cacheTile on a pool thread: QMutexLocker locker(&mDbMutex); the lambda
\* uses the captured this, also when the layer is destroyed already.
cacheTileLock(reply) ==
    /\ task[reply] = "queued"
    /\ life # "crashed"
    /\ \/ /\ mDbMutex = 0
          /\ mDbMutex' = reply
          /\ task' = [task EXCEPT ![reply] = "locked"]
          /\ UNCHANGED <<mRequest, nReplies, rPos, rState, rError, rBody,
                         deleted, tiles, mDbOpen, Tiles, diskOk, cancelled,
                         events, life>>
       \/ /\ life = "destroyed"
          /\ crash

\* cacheTile under the lock: open the database lazily, INSERT OR IGNORE, and
\* the locker releases mDbMutex on return.
cacheTileExec(reply) ==
    /\ task[reply] = "locked"
    /\ life # "crashed"
    /\ \/ /\ mDbOpen' = IF ~mDbOpen THEN initDatabase(mDbOpen, diskOk)
                                    ELSE mDbOpen
          /\ IF mDbOpen' /\ diskOk
             THEN /\ Tiles' = insertOrIgnore(Tiles, rPos[reply], rBody[reply])
                  /\ task' = [task EXCEPT ![reply] = "done"]
             ELSE /\ Tiles' = Tiles
                  /\ task' = [task EXCEPT ![reply] = "failed"]
          /\ mDbMutex' = 0
          /\ UNCHANGED <<mRequest, nReplies, rPos, rState, rError, rBody,
                         deleted, tiles, diskOk, cancelled, events, life>>
       \/ /\ life = "destroyed"
          /\ crash

\* qDeleteAll(mRequest): the replies the hash holds.
qDeleteAll(m) == {e[2] : e \in m}

\* ~QGVLayerTilesOnline: qDeleteAll(mRequest) deletes every registered reply
\* (a deleted reply emits nothing), then the members are destroyed.  Replies
\* that are not in mRequest and cacheTile tasks are left as they are.
destructor ==
    /\ life = "alive"
    /\ life' = "destroyed"
    /\ rState' = [r \in Replies |->
                     IF r \in qDeleteAll(mRequest) THEN "destroyed" ELSE rState[r]]
    /\ deleted' = deleted \cup qDeleteAll(mRequest)
    /\ mRequest' = {}
    /\ UNCHANGED <<nReplies, rPos, rError, rBody, tiles, task, mDbOpen,
                   mDbMutex, Tiles, diskOk, cancelled, events>>

\* The database file becomes unusable, or usable again.
diskChange ==
    /\ life # "crashed"
    /\ diskOk' = ~diskOk
    /\ UNCHANGED <<mRequest, nReplies, rPos, rState, rError, rBody, deleted,
                   tiles, task, mDbOpen, mDbMutex, Tiles, cancelled, events,
                   life>>

Next ==
    \/ \E tilePos \in TilePos : request(tilePos)
    \/ \E tilePos \in TilePos : cancel(tilePos)
    \/ \E reply \in Replies, body \in Bodies : finished(reply, "NoError", body)
    \/ \E reply \in Replies, body \in ErrorBodies : finished(reply, "OtherError", body)
    \/ \E reply \in Replies : cacheTileLock(reply)
    \/ \E reply \in Replies : cacheTileExec(reply)
    \/ destructor
    \/ diskChange

Spec == Init /\ [][Next]_vars


\* The network reports every running reply finished sooner or later, unless
\* the reply is aborted first.
FairSpec == Spec /\ \A reply \in Replies :
    WF_vars(\E error \in {"NoError", "OtherError"}, body \in Bodies \cup ErrorBodies :
                finished(reply, error, body))

----------------------------------------------------------------------------
\* Vocabulary of the properties.

\* The table has a row for tilePos.
HasRow(rows, tilePos) == \E row \in rows : row.pos = tilePos

\* The blob of the row of tilePos.
RowData(rows, tilePos) == (CHOOSE row \in rows : row.pos = tilePos).data

\* The step in which reply finishes by itself with a network error.
FailedStep(reply) ==
    /\ rState[reply] = "running"
    /\ rState'[reply] = "finished"
    /\ rError'[reply] = "OtherError"

\* The step in which the cacheTile task of reply leaves its critical section.
PutStep(reply) ==
    /\ task[reply] = "locked"
    /\ task'[reply] \in {"done", "failed"}

\* The step in which request(tilePos) creates a reply.
RequestStep(tilePos) ==
    /\ nReplies' = nReplies + 1
    /\ rPos'[nReplies'] = tilePos

----------------------------------------------------------------------------
\* C1: a reply that cancel(pos) found in mRequest while it was still running
\* never gets a tile delivered: cancel -> removeReply -> abort -> onReplyFinished
\* does not reach onTile.
C1_CancelDeliversNothing ==
    \A reply \in cancelled : tiles[reply] = <<>>

\* C2: onTile is invoked at most once for every reply that request created,
\* whatever the order of request, cancel and completions (a second request for
\* a pending tilePos and abort-triggered completions included).
C2_AtMostOneDelivery ==
    \A reply \in Replies : Len(tiles[reply]) <= 1

\* C2 witness: two requests for the same tilePos overlapped; the completion of
\* the first aborted the second, and each got one tile.
C2_Witness ==
    \E r1, r2 \in Replies :
        /\ r1 < r2
        /\ rPos[r1] = rPos[r2]
        /\ rState[r1] = "finished"
        /\ rState[r2] = "aborted"
        /\ r2 \notin cancelled
        /\ Len(tiles[r1]) = 1
        /\ Len(tiles[r2]) = 1

\* C3: while the layer lives, a running reply that is not cancelled eventually
\* has exactly one tile delivered (the network eventually finishes it), and a
\* reply that finished by itself, with or without an error, has exactly one
\* tile delivered.
C3_ExactlyOneDelivery ==
    \A reply \in Replies :
        /\ (rState[reply] = "running")
               ~> (reply \in cancelled \/ Len(tiles[reply]) = 1 \/ life # "alive")
        /\ [](rState[reply] = "finished" => Len(tiles[reply]) = 1)

\* C3 witness: a reply failed with a network error on a cache miss and got its
\* one tile, the NO DATA picture.
C3_Witness ==
    \E reply \in Replies :
        /\ rState[reply] = "finished"
        /\ rError[reply] = "OtherError"
        /\ reply \notin cancelled
        /\ tiles[reply] = <<[pos |-> rPos[reply], tile |-> loadImageNoData]>>

\* C4: mRequest holds at most one entry per tilePos, and holds none once no
\* reply is running any more (each one finished or was aborted).
C4_RegistryOnePerPosEmptyAtQuiescence ==
    /\ \A tilePos \in TilePos :
           Cardinality({e \in mRequest : e[1] = tilePos}) <= 1
    /\ (\A reply \in Replies : rState[reply] # "running") => mRequest = {}

\* C4 witness: two replies for the same tilePos and one of them cancelled, all
\* replies done, the registry empty.
C4_Witness ==
    /\ nReplies >= 2
    /\ \A reply \in Replies : rState[reply] # "running"
    /\ cancelled # {}
    /\ \E r1, r2 \in Replies : r1 # r2 /\ rPos[r1] = rPos[r2] /\ rPos[r1] # 0
    /\ mRequest = {}

\* C5: a reply whose completion carries OperationCanceledError gets no tile,
\* neither the cached bytes nor the NO DATA picture.
C5_CancelledCompletionDeliversNothing ==
    \A reply \in Replies :
        rError[reply] = "OperationCanceledError" => tiles[reply] = <<>>

C7_SuccessDeliversBodyAndCachesIt ==
    /\ [](\A reply \in Replies :
             (rState[reply] = "finished" /\ rError[reply] = "NoError") =>
                 /\ tiles[reply] = <<[pos |-> rPos[reply],
                                      tile |-> loadImageData(rBody[reply])]>>
                 /\ task[reply] # "none")
    /\ [][\A reply \in Replies :
             (PutStep(reply) /\ task'[reply] = "done"
                             /\ ~HasRow(Tiles, rPos[reply])) =>
                 /\ HasRow(Tiles', rPos[reply])
                 /\ RowData(Tiles', rPos[reply]) = rBody[reply]]_vars

\* C7 witness: a reply succeeded on a tilePos without a row and its task wrote
\* the body; a later reply for the same tilePos succeeded with another body
\* and got a tile built from that body, not from the row.
C7_Witness ==
    \E r1, r2 \in Replies :
        /\ r1 # r2
        /\ rPos[r1] = rPos[r2]
        /\ task[r1] = "done"
        /\ HasRow(Tiles, rPos[r1])
        /\ RowData(Tiles, rPos[r1]) = rBody[r1]
        /\ rState[r2] = "finished"
        /\ rError[r2] = "NoError"
        /\ rBody[r2] # rBody[r1]
        /\ tiles[r2] = <<[pos |-> rPos[r2], tile |-> loadImageData(rBody[r2])]>>

\* C8: when cacheTile(b, pos) leaves its critical section with the database
\* open and usable, it reports no failure, also when pos had a row; if pos
\* had no row, loadTileFromCache(pos) now returns b; if pos had a row, the row
\* is the one it was (the first blob wins); and for every other q the row of q
\* and what loadTileFromCache(q) returns are what they were.
C8_StoreFirstWins ==
    [][\A reply \in Replies :
          PutStep(reply) =>
              LET pos == rPos[reply]
                  b == rBody[reply]
                  get(rows, q) == selectData(TRUE, TRUE, rows, q)
              IN  /\ (mDbOpen' /\ diskOk) => task'[reply] = "done"
                  /\ (task'[reply] = "done" /\ ~HasRow(Tiles, pos)) =>
                         /\ get(Tiles', pos) = b
                         /\ {row \in Tiles' : row.pos = pos} =
                                {[pos |-> pos, data |-> b]}
                  /\ HasRow(Tiles, pos) =>
                         /\ get(Tiles', pos) = get(Tiles, pos)
                         /\ {row \in Tiles' : row.pos = pos} =
                                {row \in Tiles : row.pos = pos}
                  /\ \A q \in TilePos \ {pos} :
                         /\ get(Tiles', q) = get(Tiles, q)
                         /\ {row \in Tiles' : row.pos = q} =
                                {row \in Tiles : row.pos = q}]_vars

\* C8 witness: two cacheTile tasks for the same tilePos with different blobs
\* both ran without failure, the row holds the blob of one of them, and the
\* other tilePos has a row as well.
C8_Witness ==
    \E r1, r2 \in Replies :
        /\ rPos[r1] = rPos[r2]
        /\ rBody[r1] # rBody[r2]
        /\ task[r1] = "done"
        /\ task[r2] = "done"
        /\ RowData(Tiles, rPos[r1]) = rBody[r1]
        /\ \E q \in TilePos \ {rPos[r1]} : HasRow(Tiles, q)

\* C9: a request(pos) made while mRequest holds a reply for pos leaves that
\* reply registered under pos.
C9_RequestKeepsPendingReply ==
    [][\A tilePos \in TilePos :
          (RequestStep(tilePos) /\ value(mRequest, tilePos) # nullptr) =>
              value(mRequest', tilePos) = value(mRequest, tilePos)]_vars

\* C10: cancel(pos) with no entry for pos changes nothing (registry, replies,
\* tiles, table, cache tasks); after any cancel(pos) there is no entry for
\* pos, so a second cancel(pos) is that no-op; and cancel(pos) leaves the
\* entry of every other tilePos registered and every reply of another tilePos
\* in the state it was in.
C10_CancelIdempotentAndLocal ==
    [][\A tilePos \in TilePos :
          (cancel(tilePos) /\ life' = "alive") =>
              /\ value(mRequest, tilePos) = nullptr => UNCHANGED vars
              /\ value(mRequest', tilePos) = nullptr
              /\ removeReply(removeReply(Main, tilePos), tilePos)
                     = removeReply(Main, tilePos)
              /\ \A q \in TilePos \ {tilePos} :
                     value(mRequest', q) = value(mRequest, q)
              /\ \A reply \in Replies :
                     rPos[reply] # tilePos =>
                         /\ rState'[reply] = rState[reply]
                         /\ rError'[reply] = rError[reply]
                         /\ tiles'[reply] = tiles[reply]
                         /\ (reply \in deleted') = (reply \in deleted)]_vars

\* C10 witness: cancel(pos) aborted the reply of pos while another tilePos
\* had a running reply, which is still registered and running; pos has no
\* entry, so the next cancel(pos) finds nothing.
C10_Witness ==
    \E r1, r2 \in Replies :
        /\ r1 \in cancelled
        /\ value(mRequest, rPos[r1]) = nullptr
        /\ rPos[r2] # rPos[r1]
        /\ value(mRequest, rPos[r2]) = r2
        /\ rState[r2] = "running"


----------------------------------------------------------------------------
\* More vocabulary.

\* In seq, every b comes after some a.
Precedes(seq, a, b) ==
    \A j \in 1..Len(seq) :
        seq[j] = b => \E i \in 1..(j - 1) : seq[i] = a

\* seq contains call.
Calls(seq, call) == \E i \in 1..Len(seq) : seq[i] = call

\* The step in which reply finishes by itself (no abort).
FinishedStep(reply) ==
    /\ rState[reply] = "running"
    /\ rState'[reply] = "finished"

\* The step in which an onReplyFinished calls loadTileFromCache.
LoadTileFromCacheStep ==
    \E reply \in Replies :
        \E i \in (Len(events[reply]) + 1)..Len(events'[reply]) :
            events'[reply][i] = "loadTileFromCache"

\* QImage cannot decode an empty byte array.
Undecodable(rawData) == rawData = <<>>

\* C11: the destructor leaves no registered reply running and releases each
\* one, leaves the registry empty, and after it no tile is delivered any more
\* (for no request that was pending when it ran).
C11_ShutdownReleasesAllAndDeliversNothing ==
    [][/\ (life = "alive" /\ life' = "destroyed") =>
              /\ mRequest' = {}
              /\ \A e \in mRequest :
                     /\ rState'[e[2]] # "running"
                     /\ e[2] \in deleted'
       /\ life = "destroyed" => tiles' = tiles]_vars

\* C12: a reply that finished without a network error but whose body cannot be
\* decoded gets the NO DATA picture, not a tile built from that body.
C12_UndecodableBodyGivesPlaceholder ==
    \A reply \in Replies :
        (/\ rState[reply] = "finished"
         /\ rError[reply] = "NoError"
         /\ Undecodable(rBody[reply])
         /\ Len(tiles[reply]) >= 1) =>
            tiles[reply][1].tile = loadImageNoData

\* C13 as stated: in every onReplyFinished, removeReply comes before the cache
\* lookup, before the tile is built from the body and before onTile.
C13_RemovalPrecedesEverything ==
    \A reply \in Replies :
        /\ Precedes(events[reply], "removeReply", "loadTileFromCache")
        /\ Precedes(events[reply], "removeReply", "loadImage")
        /\ Precedes(events[reply], "removeReply", "onTile")

\* C13 amended: in every onReplyFinished, removeReply comes before the cache
\* lookup and before onTile (on success the body is read and the tile built
\* from it before removeReply), and when onTile has been invoked for a reply
\* the registry holds no entry for that reply.
C13_RemovalPrecedesLookupAndDelivery ==
    /\ [](\A reply \in Replies :
             /\ Precedes(events[reply], "removeReply", "loadTileFromCache")
             /\ Precedes(events[reply], "removeReply", "onTile")
             /\ Precedes(events[reply], "loadImage", "removeReply")
                    \/ ~Calls(events[reply], "loadImage"))
    /\ [][\A reply \in Replies :
             tiles'[reply] # tiles[reply] =>
                 <<rPos[reply], reply>> \notin mRequest']_vars

\* C13 witness: one reply went through the success path, another through the
\* error path, each removed from the registry before its onTile.
C13_Witness ==
    \E r1, r2 \in Replies :
        /\ events[r1] = <<"readAll", "loadImage", "removeReply", "onTile",
                          "QtConcurrent::run">>
        /\ events[r2] = <<"removeReply", "loadTileFromCache", "onTile">>
        /\ rError[r2] = "OtherError"
        /\ mRequest = {}

\* C14: on success onTile is invoked before the cache write is dispatched; the
\* handler of a running reply can run whoever holds mDbMutex and does not
\* touch it; and the tile delivered stays what it was, built from the body,
\* whether the write then succeeds or fails (database unusable or not opened).
C14_WriteOffDeliveryPath ==
    /\ [](\A reply \in Replies :
             /\ (rState[reply] = "finished" /\ rError[reply] = "NoError") =>
                    /\ Calls(events[reply], "QtConcurrent::run")
                    /\ Precedes(events[reply], "onTile", "QtConcurrent::run")
                    /\ tiles[reply][1].tile = loadImageData(rBody[reply])
             /\ (rState[reply] = "running" /\ life = "alive") =>
                    ENABLED (finished(reply, "NoError", <<1>>) /\ life' = "alive"))
    /\ [][\A reply \in Replies :
             /\ FinishedStep(reply) => mDbMutex' = mDbMutex
             /\ (task[reply] # "none" /\ task'[reply] # task[reply]) =>
                    tiles' = tiles]_vars

\* C14 witness: a reply succeeded and got its tile while the database file was
\* unusable; its cache write failed, the tile is the one built from the body.
C14_Witness ==
    \E reply \in Replies :
        /\ rState[reply] = "finished"
        /\ rError[reply] = "NoError"
        /\ task[reply] = "failed"
        /\ ~mDbOpen
        /\ tiles[reply] = <<[pos |-> rPos[reply],
                             tile |-> loadImageData(rBody[reply])]>>

\* C15: no step removes a row of Tiles or changes its blob, and the only step
\* that adds a row is the cacheTile of a reply that finished without error,
\* adding the row of its tilePos and body; request, cancel, failed and
\* cancelled completions leave the table as it is.
C15_StoreAppendOnly ==
    [][/\ Tiles \subseteq Tiles'
       /\ Tiles' # Tiles =>
              \E reply \in Replies :
                  /\ PutStep(reply)
                  /\ rState[reply] = "finished"
                  /\ rError[reply] = "NoError"
                  /\ Tiles' = Tiles \cup
                         {[pos |-> rPos[reply], data |-> rBody[reply]]}]_vars

\* C15 witness: a successful reply's cacheTile added its row; a cancelled
\* reply and its delivery left the table alone.
C15_Witness ==
    \E r1, r2 \in Replies :
        /\ task[r1] = "done"
        /\ [pos |-> rPos[r1], data |-> rBody[r1]] \in Tiles
        /\ r2 \in cancelled
        /\ Len(tiles[r2]) = 1

\* C16: once no reply is running any more, every reply request created has
\* been released (close, deleteLater or delete).
C16_EveryReplyReleased ==
    (\A reply \in Replies : rState[reply] # "running") =>
        \A reply \in 1..nReplies : reply \in deleted

\* C17: at most one cacheTile is inside its critical section, the one holding
\* mDbMutex; Tiles has one row per tilePos at most; a cacheTile that ran has a
\* row for its tilePos, and when there was none before, the table afterwards
\* is the old one plus the row of its own tilePos and body.
C17_CacheWritesSerialized ==
    /\ [](/\ Cardinality({reply \in Replies : task[reply] = "locked"}) <= 1
          /\ \A reply \in Replies : task[reply] = "locked" <=> mDbMutex = reply
          /\ \A a, b \in Tiles : a.pos = b.pos => a = b
          /\ \A reply \in Replies :
                 task[reply] = "done" => HasRow(Tiles, rPos[reply]))
    /\ [][\A reply \in Replies :
             (PutStep(reply) /\ task'[reply] = "done") =>
                 Tiles' = IF HasRow(Tiles, rPos[reply])
                          THEN Tiles
                          ELSE Tiles \cup {[pos |-> rPos[reply],
                                            data |-> rBody[reply]]}]_vars

\* C17 witness: two replies for different tilePos succeeded, both cacheTile
\* ran, and the table holds exactly their two rows.
C17_Witness ==
    \E r1, r2 \in Replies :
        /\ rPos[r1] # rPos[r2]
        /\ task[r1] = "done"
        /\ task[r2] = "done"
        /\ Tiles = {[pos |-> rPos[r1], data |-> rBody[r1]],
                    [pos |-> rPos[r2], data |-> rBody[r2]]}

\* C18: the GUI thread never runs loadTileFromCache (its lazy initDatabase, its
\* query on mDb) while a cacheTile holds mDbMutex with the database not yet
\* open, that is on its way through initDatabase.
C18_LazyOpenRaceFree ==
    [][LoadTileFromCacheStep => ~(mDbMutex # 0 /\ ~mDbOpen)]_vars

\* C19: when a reply finishes by itself, its onReplyFinished leaves every other
\* running reply running and registered where it was.
C19_CompletionRemovesOnlyItself ==
    [][\A reply \in Replies :
          FinishedStep(reply) =>
              \A other \in Replies \ {reply} :
                  rState[other] = "running" =>
                      /\ rState'[other] = "running"
                      /\ <<rPos[other], other>> \in mRequest =>
                             <<rPos[other], other>> \in mRequest']_vars

\* C20: once the destructor has run, no cacheTile task is inside cacheTile.
C20_NoCacheTileOnDestroyedLayer ==
    life = "destroyed" => \A reply \in Replies : task[reply] # "locked"

====
